---- MODULE Spec2Model ----
(***************************************************************************)
(* Model of the chat backend of sg-ask-me:                                 *)
(*   - the sliding-window rate limiter (app/core/rate_limit.py), which     *)
(*     keeps one sorted set of timestamps per client key in Redis;         *)
(*   - the streaming route (app/api/routes_chat.py) and the provider       *)
(*     adapters (app/services/llm/*_provider.py).                          *)
(***************************************************************************)
EXTENDS Integers, Sequences, FiniteSets, TLC

\* ------------------------------------------------------------------------
\* Bounds of the model
\* ------------------------------------------------------------------------
\* Seconds of wall-clock time explored after the start of the run.
Horizon == 90
\* Seconds that may pass between a check's reading of the clock and its
\* round trip to the store.
MaxLag == 1

\* ------------------------------------------------------------------------
\* Rate limiter: configuration of the protected route
\* ------------------------------------------------------------------------
\* routes_chat.py: Depends(rate_limit("chat_stream", limit=20, window_sec=60))
Limit == 20
WindowSec == 60
\* rate_limit.py: pipe.expire(key, window_sec + 5)
Grace == 5

\* Value of int(time.time()) when the run starts (any value >= WindowSec).
T0 == 1000
MaxClock == T0 + Horizon

\* Server processes that run the dependency concurrently against one store.
Workers == {"w1", "w2"}
\* request.client.host, or "unknown" when the request has no client.
Clients == {"10.0.0.1"}

\* key = f"rl:{key_prefix}:{ip}"
RateKey(prefix, ip) == "rl:" \o prefix \o ":" \o ip
Keys == {RateKey("chat_stream", ip) : ip \in Clients}

\* How far the clock moves in one step: the next second, or an idle gap that
\* ends just before, at, or after the window (and after the key's expiry).
ClockSteps == {1, WindowSec - 1, WindowSec, WindowSec + 1,
               WindowSec + Grace, WindowSec + Grace + 1}
\* Checks with one timestamp that the model follows for one key.
MaxBurst == Limit + 1

\* Ways pipe.execute() can fail when the store cannot be reached
\* (redis.exceptions: TimeoutError is not a subclass of ConnectionError).
Faults == {"ConnectionError", "TimeoutError"}

VARIABLES
    clock,      \* wall-clock time in whole seconds
    zset,       \* the store: key -> set of [member, score] entries
    expireAt,   \* the store: key -> time at which the key is deleted (0: none)
    wpc,        \* worker -> "idle" | "exec"
    wkey,       \* worker -> key of the check in progress
    wnow,       \* worker -> now = int(time.time()) of the check in progress
    wtx,        \* worker -> state of its pipeline run
    last,       \* the admission check that has just ended (NoCheck after any other step)
    burst       \* key -> tally of the checks stamped with the current second

rlvars == <<clock, zset, expireAt, wpc, wkey, wnow, wtx, last, burst>>

\* State of the streaming route (one request).
VARIABLES
    provider,   \* the adapter get_llm_provider() returned
    connected,  \* the client is still connected
    gpc,        \* gen(): "idle" | "pulling" | "yielded" | "sent" | "finished"
    gend,       \* how gen() ended: "none" | "returned" | "raised" | "closed"
    pending,    \* the frame gen() is suspended on
    frames,     \* frames written to the transport, in order
    wire,       \* bytes written to the transport
    events,     \* StreamEvents the loop of gen() received, in order
    pulls,      \* pulls from the handle that gen() started
    vcount,     \* vendor events the adapter consumed
    aqueue,     \* events the adapter yields before reading the vendor again
    aended,     \* the adapter's iterator left its loop
    fullText,   \* Gemini adapter: full_text
    handle,     \* [acquired, released, conn] of the stream handle
    errs,       \* exceptions raised: "open", "pull", "release"; "config" with a misconfigured open
    errAt       \* frames written when opening or pulling raised (-1: never)

svars == <<provider, connected, gpc, gend, pending, frames, wire, events, pulls,
           vcount, aqueue, aended, fullText, handle, errs, errAt>>

\* State of the provider registry, the configuration and the request.
VARIABLES
    settings,   \* app.core.config.settings: LLM_PROVIDER and the credentials
    registry,   \* factory._registry: name -> provider class, in insertion order
    resolved,   \* what the latest get_llm_provider() call did
    calls,      \* register_provider / get_llm_provider calls made, in order
    rpc,        \* request: "arrived" | "admission" | "endpoint" | "streaming" | "responded"
    verdict,    \* what the admission check did to the request ("none" before it)
    status      \* HTTP status of the response (0: none yet)

qvars == <<settings, registry, resolved, calls, rpc, verdict, status>>

vars == <<rlvars, svars, qvars>>

NoCheck == [worker |-> "-", key |-> "-", now |-> 0, at |-> 0, fault |-> "none",
            count |-> 0, before |-> 0, added |-> 0, afterTrim |-> 0,
            outcome |-> "none", logs |-> <<>>]
NoBurst == [checks |-> 0, admits |-> 0, rejects |-> 0, fresh |-> FALSE]

\* ------------------------------------------------------------------------
\* Redis commands used by the limiter
\* ------------------------------------------------------------------------
\* str(now): the decimal rendering of now; two renderings are equal exactly
\* when the numbers are, so the member is represented by the number.
Member(now) == now

\* ZADD key score member: a member already present only gets its score set.
ZAdd(z, member, score) ==
    {e \in z : e.member # member} \cup {[member |-> member, score |-> score]}

\* ZREMRANGEBYSCORE key lo hi: both ends inclusive (ZRemRangeBelow leaves the
\* upper end in the set).
ZRemRangeBelow(z, lo, hi) == {e \in z : ~(lo <= e.score /\ e.score < hi)}
ZRemRangeByScore(z, lo, hi) == {e \in z : ~(lo <= e.score /\ e.score <= hi)}

ZCard(z) == Cardinality(z)

\* A key whose expiry has passed is gone; LiveForever is a store that never
\* deletes a key.
LiveForever(z, exp, t) == z
Live(z, exp, t) == IF exp # 0 /\ t >= exp THEN {} ELSE z

\* The commands queued on the pipeline, in order (rate_limit.py 23-26).
Pipeline == <<"ZADD", "ZREMRANGEBYSCORE", "ZCARD", "EXPIRE">>

\* State of one pipeline run: the key's set and expiry, the replies so far,
\* and two observations: the entries inside the window before the first
\* command ran, and the size of the set right after this run's own trim.
NoTx == [replies |-> <<>>, before |-> 0, afterTrim |-> 0]

ApplyCmd(cmd, s, now, t) ==
    CASE cmd = "ZADD" ->
           [s EXCEPT !.z = ZAdd(s.z, Member(now), now),
                     !.replies = Append(@, IF \E e \in s.z : e.member = Member(now)
                                           THEN 0 ELSE 1),
                     !.before = Cardinality({e \in s.z : e.score > now - WindowSec})]
      [] cmd = "ZREMRANGEBYSCORE" ->
           LET z2 == ZRemRangeByScore(s.z, 0, now - WindowSec) IN
           [s EXCEPT !.z = z2,
                     !.replies = Append(@, Cardinality(s.z) - Cardinality(z2)),
                     !.afterTrim = ZCard(z2)]
      [] cmd = "ZCARD" ->
           [s EXCEPT !.replies = Append(@, ZCard(s.z))]
      [] cmd = "EXPIRE" ->
           [s EXCEPT !.exp = t + WindowSec + Grace,
                     !.replies = Append(@, 1)]

RECURSIVE RunPipeline(_, _, _, _, _)
RunPipeline(s, i, j, now, t) ==
    IF i > j THEN s
    ELSE RunPipeline(ApplyCmd(Pipeline[i], s, now, t), i + 1, j, now, t)

\* r.pipeline() is a transaction (MULTI ... EXEC): the store runs every queued
\* command, from the i-th to the last, before it serves another client.
TxEndSingle(i) == i
TxEnd(i) == Len(Pipeline)

\* _, _, count, _ = pipe.execute()
Count(replies) == replies[3]

\* if int(count) > limit: raise HTTPException(429); AdmitBelow rejects from
\* count = limit on.
AdmitBelow(count) == count < Limit
Admit(count) == ~(count > Limit)

\* except redis.ConnectionError: pass
Caught(fault) == fault = "ConnectionError"

\* The log records dep emits for a check: rate_limit.py has no logger and no
\* logging call; the except clause is "pass".
DepLogs(fault, count) == <<>>

\* What the dependency does to the request.
DepOutcome(fault, count) ==
    IF fault # "none"
    THEN IF Caught(fault) THEN "admit" ELSE "error"
    ELSE IF Admit(count) THEN "admit" ELSE "reject"

Tally(b, now, t, before, outcome) ==
    IF now # t THEN b
    ELSE [checks  |-> b.checks + 1,
          admits  |-> b.admits + (IF outcome = "admit" THEN 1 ELSE 0),
          rejects |-> b.rejects + (IF outcome = "reject" THEN 1 ELSE 0),
          fresh   |-> IF b.checks = 0 THEN before = 0 ELSE b.fresh]

InFlight(k) == Cardinality({w \in Workers : wpc[w] = "exec" /\ wkey[w] = k})

RLInit ==
    /\ clock = T0
    /\ zset = [k \in Keys |-> {}]
    /\ expireAt = [k \in Keys |-> 0]
    /\ wpc = [w \in Workers |-> "idle"]
    /\ wkey = [w \in Workers |-> "-"]
    /\ wnow = [w \in Workers |-> 0]
    /\ wtx = [w \in Workers |-> NoTx]
    /\ last = NoCheck
    /\ burst = [k \in Keys |-> NoBurst]

\* dep, lines 16-26: build the key, read the clock, queue the commands.
DepBegin(w, ip) ==
    LET k == RateKey("chat_stream", ip) IN
    /\ wpc[w] = "idle"
    /\ burst[k].checks + InFlight(k) < MaxBurst
    /\ wpc' = [wpc EXCEPT ![w] = "exec"]
    /\ wkey' = [wkey EXCEPT ![w] = k]
    /\ wnow' = [wnow EXCEPT ![w] = clock]
    /\ last' = NoCheck
    /\ UNCHANGED <<clock, zset, expireAt, wtx, burst>>

\* dep, lines 27-30: the round trip succeeds and the count decides.
DepExecute(w) ==
    LET k    == wkey[w]
        i    == Len(wtx[w].replies) + 1
        j    == TxEnd(i)
        s0   == [z |-> Live(zset[k], expireAt[k], clock),
                 exp |-> IF Live(zset[k], expireAt[k], clock) = {} THEN 0
                         ELSE expireAt[k],
                 replies |-> wtx[w].replies, before |-> wtx[w].before,
                 afterTrim |-> wtx[w].afterTrim]
        s1   == RunPipeline(s0, i, j, wnow[w], clock)
        done == j = Len(Pipeline)
        out  == DepOutcome("none", Count(s1.replies))
    IN
    /\ wpc[w] = "exec"
    /\ zset' = [zset EXCEPT ![k] = s1.z]
    /\ expireAt' = [expireAt EXCEPT ![k] = s1.exp]
    /\ IF done
       THEN /\ last' = [worker |-> w, key |-> k, now |-> wnow[w], at |-> clock,
                        fault |-> "none", count |-> Count(s1.replies),
                        before |-> s1.before, added |-> s1.replies[1],
                        afterTrim |-> s1.afterTrim, outcome |-> out,
                        logs |-> DepLogs("none", Count(s1.replies))]
            /\ burst' = [burst EXCEPT ![k] =
                            Tally(@, wnow[w], clock, s1.before, out)]
            /\ wpc' = [wpc EXCEPT ![w] = "idle"]
            /\ wkey' = [wkey EXCEPT ![w] = "-"]
            /\ wnow' = [wnow EXCEPT ![w] = 0]
            /\ wtx' = [wtx EXCEPT ![w] = NoTx]
       ELSE /\ wtx' = [wtx EXCEPT ![w] = [replies |-> s1.replies,
                                          before |-> s1.before,
                                          afterTrim |-> s1.afterTrim]]
            /\ last' = NoCheck
            /\ UNCHANGED <<burst, wpc, wkey, wnow>>
    /\ UNCHANGED clock

\* dep, lines 27 and 31-33: the store cannot be reached, execute() raises.
DepStoreDown(w, fault) ==
    LET k   == wkey[w]
        out == DepOutcome(fault, 0)
    IN
    /\ wpc[w] = "exec"
    /\ wtx[w] = NoTx
    /\ last' = [worker |-> w, key |-> k, now |-> wnow[w], at |-> clock,
                fault |-> fault, count |-> 0, before |-> 0, added |-> 0,
                afterTrim |-> 0, outcome |-> out, logs |-> DepLogs(fault, 0)]
    /\ wpc' = [wpc EXCEPT ![w] = "idle"]
    /\ wkey' = [wkey EXCEPT ![w] = "-"]
    /\ wnow' = [wnow EXCEPT ![w] = 0]
    /\ UNCHANGED <<clock, zset, expireAt, wtx, burst>>

\* Time passes; the store deletes the keys whose expiry is reached.
Tick(d) ==
    /\ clock + d <= MaxClock
    /\ d = 1 => \E k \in Keys : burst[k].checks > 0
    /\ \A w \in Workers : wpc[w] = "exec" => clock + d - wnow[w] <= MaxLag
    /\ clock' = clock + d
    /\ zset' = [k \in Keys |-> Live(zset[k], expireAt[k], clock + d)]
    /\ expireAt' = [k \in Keys |->
                      IF Live(zset[k], expireAt[k], clock + d) = {} THEN 0
                      ELSE expireAt[k]]
    /\ burst' = [k \in Keys |-> NoBurst]
    /\ last' = NoCheck
    /\ UNCHANGED <<wpc, wkey, wnow, wtx>>

RLNext ==
    \/ \E w \in Workers, ip \in Clients : DepBegin(w, ip) /\ UNCHANGED <<svars, qvars>>
    \/ \E w \in Workers : DepExecute(w) /\ UNCHANGED <<svars, qvars>>
    \/ \E w \in Workers, f \in Faults : DepStoreDown(w, f) /\ UNCHANGED <<svars, qvars>>
    \/ \E d \in ClockSteps : Tick(d) /\ UNCHANGED <<svars, qvars>>

\* ========================================================================
\* Provider registry and configuration (app/services/llm/factory.py)
\* ========================================================================
\* Provider names are strings of characters, written as tuples so that
\* strip() and lower() can be computed on them.
OpenAIName == <<"o", "p", "e", "n", "a", "i">>
GeminiName == <<"g", "e", "m", "i", "n", "i">>

\* Values of settings.LLM_PROVIDER and of the name passed to
\* register_provider that the model follows; <<>> is the empty string.
RawNames == {<<>>,
             OpenAIName,
             <<" ", "O", "p", "e", "n", "A", "I", " ">>,
             GeminiName,
             <<"G", "E", "M", "I", "N", "I", "\n">>,
             <<"u", "n", "k", "n", "o", "w", "n", "-", "v", "e", "n", "d", "o", "r">>,
             <<"\t", "F", "a", "k", "e">>}

\* Names given to register_provider.
RegNames == {OpenAIName,
             <<" ", "O", "p", "e", "n", "A", "I", " ">>,
             <<"G", "E", "M", "I", "N", "I", "\n">>,
             <<"\t", "F", "a", "k", "e">>}

\* Provider classes: the two of this repository and one a test registers.
Ctors == {"OpenAIProvider", "GeminiProvider", "FakeProvider"}

\* Credentials: unset (the default "") or set.
ApiKeys == {"", "sk-test"}

\* Calls to the registry followed in one run.
MaxCalls == 3

Whitespace == {" ", "\t", "\n"}
UpperCase == <<"A", "B", "C", "D", "E", "F", "G", "H", "I", "J", "K", "L", "M",
               "N", "O", "P", "Q", "R", "S", "T", "U", "V", "W", "X", "Y", "Z">>
LowerCase == <<"a", "b", "c", "d", "e", "f", "g", "h", "i", "j", "k", "l", "m",
               "n", "o", "p", "q", "r", "s", "t", "u", "v", "w", "x", "y", "z">>

\* str.lower(), character by character.
LowerChar(c) ==
    IF \E i \in 1..Len(UpperCase) : UpperCase[i] = c
    THEN LowerCase[CHOOSE i \in 1..Len(UpperCase) : UpperCase[i] = c]
    ELSE c
Lower(name) == [i \in 1..Len(name) |-> LowerChar(name[i])]

\* str.strip(): leading and trailing whitespace removed.
RECURSIVE LStrip(_)
LStrip(name) ==
    IF name # <<>> /\ Head(name) \in Whitespace THEN LStrip(Tail(name)) ELSE name
RECURSIVE RStrip(_)
RStrip(name) ==
    IF name # <<>> /\ name[Len(name)] \in Whitespace
    THEN RStrip(SubSeq(name, 1, Len(name) - 1)) ELSE name
Strip(name) == LStrip(RStrip(name))

\* name.strip().lower(); NormalizeRaw is the name taken as it is written.
NormalizeRaw(name) == name
Normalize(name) == Lower(Strip(name))

\* _registry after import: "openai" always, "gemini" when its SDK imports.
DefaultRegistry(geminiAvailable) ==
    <<[name |-> OpenAIName, ctor |-> "OpenAIProvider"]>>
    \o (IF geminiAvailable
        THEN <<[name |-> GeminiName, ctor |-> "GeminiProvider"]>> ELSE <<>>)

\* list(_registry.keys()), key in _registry, _registry[key]
RegistryKeys(reg) == [i \in 1..Len(reg) |-> reg[i].name]
HasKey(reg, key) == \E i \in 1..Len(reg) : reg[i].name = key
Lookup(reg, key) == reg[CHOOSE i \in 1..Len(reg) : reg[i].name = key].ctor

\* _registry[key] = provider_class: a present key keeps its place.
SetItem(reg, key, ctor) ==
    IF HasKey(reg, key)
    THEN [i \in 1..Len(reg) |->
            IF reg[i].name = key THEN [name |-> key, ctor |-> ctor] ELSE reg[i]]
    ELSE Append(reg, [name |-> key, ctor |-> ctor])

\* register_provider(name, provider_class)
RegisterProvider(reg, name, ctor) == SetItem(reg, Normalize(name), ctor)

NoResolve == [kind |-> "none", ctor |-> "-", requested |-> <<>>, supported |-> <<>>]

\* provider_class(): GeminiProvider.__init__ raises ValueError when
\* GEMINI_API_KEY is not set; OpenAIProvider.__init__ builds the client with
\* whatever key is configured.
Construct(ctor, st) ==
    IF ctor = "GeminiProvider" /\ st.GEMINI_API_KEY = ""
    THEN [kind |-> "ctor_error", ctor |-> ctor, requested |-> st.LLM_PROVIDER,
          supported |-> <<>>]
    ELSE [kind |-> "instance", ctor |-> ctor, requested |-> st.LLM_PROVIDER,
          supported |-> <<>>]

\* get_llm_provider(): the ValueError names settings.LLM_PROVIDER and lists
\* the registered keys.
GetLLMProvider(reg, st) ==
    LET key == Normalize(IF st.LLM_PROVIDER # <<>> THEN st.LLM_PROVIDER
                         ELSE OpenAIName)
    IN  IF ~HasKey(reg, key)
        THEN [kind |-> "unknown", ctor |-> "-", requested |-> st.LLM_PROVIDER,
              supported |-> RegistryKeys(reg)]
        ELSE Construct(Lookup(reg, key), st)

\* The adapter family of a provider instance.
AdapterOf(ctor) ==
    CASE ctor = "OpenAIProvider" -> "openai"
      [] ctor = "GeminiProvider" -> "gemini"
      [] OTHER -> "fake"

Settings(name, okey, gkey) ==
    [LLM_PROVIDER |-> name, OPENAI_API_KEY |-> okey, GEMINI_API_KEY |-> gkey]

\* Configuration, registry and request before anything happened.
QIdle(st, reg) ==
    /\ settings = st
    /\ registry = reg
    /\ resolved = NoResolve
    /\ calls = <<>>
    /\ rpc = "arrived"
    /\ verdict = "none"
    /\ status = 0

\* register_provider(name, ctor), at startup or from a test.
Register(name, ctor) ==
    /\ Len(calls) < MaxCalls
    /\ registry' = RegisterProvider(registry, name, ctor)
    /\ calls' = Append(calls, [op |-> "register", name |-> name, ctor |-> ctor])
    /\ resolved' = NoResolve
    /\ UNCHANGED <<settings, rpc, verdict, status>>

\* LLM_PROVIDER is set to name and get_llm_provider() is called.
Resolve(name) ==
    LET st == [settings EXCEPT !.LLM_PROVIDER = name] IN
    /\ Len(calls) < MaxCalls
    /\ settings' = st
    /\ resolved' = GetLLMProvider(registry, st)
    /\ calls' = Append(calls, [op |-> "resolve", name |-> name, ctor |-> "-"])
    /\ UNCHANGED <<registry, rpc, verdict, status>>

RegistryNext ==
    \/ \E name \in RegNames, ctor \in Ctors :
          Register(name, ctor) /\ UNCHANGED <<rlvars, svars>>
    \/ \E name \in RawNames : Resolve(name) /\ UNCHANGED <<rlvars, svars>>

\* ========================================================================
\* Streaming route: POST /api/chat/stream
\* ========================================================================
\* Vendor events followed for one request.
MaxEvents == 3

\* settings.LLM_PROVIDER values with a registered adapter.
Providers == {"openai", "gemini"}

\* Text fragments and response ids the vendors send ("" stands for an empty
\* or missing value: both are falsy in the code).
Texts == {"", "Hel", "lo"}
ResponseIds == {"", "abc123"}

\* A field of StreamEvent left at its default, None.
NoneStr == "<None>"
Truthy(s) == s # "" /\ s # NoneStr

\* base.py: StreamEvent(kind, text=None, response_id=None)
StreamEvent(kind, text, response_id) ==
    [kind |-> kind, text |-> text, response_id |-> response_id]

\* routes_chat.py: sse(event, data)
sse(event, data) == "event: " \o event \o "\ndata: " \o data \o "\n\n"

\* A frame handed to the transport: its kind, its payload and its bytes.
Frame(event, data) == [event |-> event, data |-> data, bytes |-> sse(event, data)]
NoFrame == [event |-> "none", data |-> "", bytes |-> ""]

\* Events of the OpenAI Responses stream, as the adapter reads them:
\* event.type, event.delta, whether event.response is set, event.response.id.
OpenAIEvents ==
    {[type |-> "response.output_text.delta", delta |-> t, response |-> FALSE, id |-> ""] :
        t \in Texts}
    \cup {[type |-> "response.completed", delta |-> "", response |-> TRUE, id |-> i] :
        i \in ResponseIds}
    \cup {[type |-> "response.completed", delta |-> "", response |-> FALSE, id |-> ""],
          [type |-> "response.created", delta |-> "", response |-> TRUE, id |-> "abc123"]}

\* Chunks of the Gemini stream: chunk.text, and whether
\* chunk.candidates[0].finish_reason is set.
GeminiChunks == {[text |-> t, finish |-> f] : t \in Texts, f \in BOOLEAN}

VendorEvents(prov) == IF prov = "openai" THEN OpenAIEvents ELSE GeminiChunks

\* hashlib.md5(full_text.encode()).hexdigest()[:16], for the texts the
\* model can accumulate.
Md5Hex16(text) ==
    CASE text = "" -> "d41d8cd98f00b204"
      [] text = "Hel" -> "6b6e667a40e816c4"
      [] text = "lo" -> "7ce8636c076f5f42"
      [] text = "HelHel" -> "1520518c62f78799"
      [] text = "Hello" -> "8b1a9953c4611296"
      [] text = "loHel" -> "84b1b6ca6612b085"
      [] text = "lolo" -> "d6581d542c7eaf80"
      [] text = "HelHelHel" -> "1dd609c7a259b161"
      [] text = "HelHello" -> "d96bba976f1c3af8"
      [] text = "HelloHel" -> "6a1d9100ed1cf9a0"
      [] text = "Hellolo" -> "afc4fc165e8145b2"
      [] text = "loHelHel" -> "7cfabcdbb075c3a0"
      [] text = "loHello" -> "3cdc8181cab23d67"
      [] text = "loloHel" -> "e6a6812a1ed6e018"
      [] text = "lololo" -> "80ef61a9478f6687"
      [] text = "HelHelHelHel" -> "1bca7df6ef8beb60"
      [] text = "HelHelHello" -> "0a2269381c027cdb"
      [] text = "HelHelloHel" -> "fe2e4558c49d1aa2"
      [] text = "HelHellolo" -> "3c18c3627edd0669"
      [] text = "HelloHelHel" -> "7a7fb8c140338d0b"
      [] text = "HelloHello" -> "91db2d4279a42766"
      [] text = "HelloloHel" -> "25526b70212651eb"
      [] text = "Hellololo" -> "19868393c56c82fd"
      [] text = "loHelHelHel" -> "19b2d85c3ff06e1e"
      [] text = "loHelHello" -> "3c2298e2b5255c25"
      [] text = "loHelloHel" -> "6099ffabf7939b03"
      [] text = "loHellolo" -> "96ebf5b7a41fd082"
      [] text = "loloHelHel" -> "84651d46990bb7c7"
      [] text = "loloHello" -> "7b923f537411e393"
      [] text = "lololoHel" -> "948676e3368836c6"
      [] text = "lolololo" -> "9f2788a951100afe"

\* _OpenAIStreamAdapter.__iter__: what one vendor event makes the adapter
\* yield, and whether the adapter stops iterating after it.
OpenAIAdapt(ev) ==
    IF ev.type = "response.output_text.delta"
    THEN [out |-> <<StreamEvent("delta", ev.delta, NoneStr)>>, stop |-> FALSE]
    ELSE IF ev.type = "response.completed" /\ ev.response
    THEN [out |-> <<StreamEvent("done", NoneStr, ev.id)>>, stop |-> FALSE]
    ELSE [out |-> <<>>, stop |-> FALSE]

\* _GeminiStreamAdapter.__iter__: the same for one chunk, given the text
\* accumulated before it.
GeminiText(chunk, full) == IF chunk.text # "" THEN full \o chunk.text ELSE full

GeminiAdapt(chunk, full) ==
    LET delta == IF chunk.text # ""
                 THEN <<StreamEvent("delta", chunk.text, NoneStr)>> ELSE <<>>
        done  == IF chunk.finish
                 THEN <<StreamEvent("done", NoneStr, Md5Hex16(GeminiText(chunk, full)))>>
                 ELSE <<>>
    IN  [out |-> delta \o done, stop |-> chunk.finish]

Adapt(prov, ev, full) ==
    IF prov = "openai" THEN OpenAIAdapt(ev) ELSE GeminiAdapt(ev, full)

\* Ways the handle's release routine can end.  _GeminiStreamAdapter.__exit__
\* is "pass"; _OpenAIStreamAdapter.__exit__ calls the SDK's stream manager,
\* which closes the HTTP response and may raise, with the response closed
\* or not.
ReleaseOutcomes(prov) ==
    IF prov = "openai" THEN {"ok", "raise_closed", "raise_open"} ELSE {"ok"}

Raises(rel) == rel # "ok"

\* The handle after __exit__ ran.
HandleExitSkipped(prov, h, rel) == h
HandleExit(prov, h, rel) ==
    [h EXCEPT !.released = @ + 1,
              !.conn = IF prov = "openai" /\ rel # "raise_open" THEN "closed" ELSE @]

\* str(e) of the exceptions the model raises.
OpenMsg == "open failed"
CredentialMsg == "Error code: 401 - Incorrect API key provided"
ModelMsg == "Model 'gemini-3-flash-preview' not found or not available.\nSet LLM_MODEL in .env to one of the available models."

\* Why provider.stream_chat(...) or __enter__ can raise, inside gen():
\*   "model"       GeminiProvider.stream_chat: genai.GenerativeModel(...) raises
\*                 and the ValueError "Model ... not found" is raised;
\*   "credential"  OpenAI: OPENAI_API_KEY is "" (OpenAIProvider.__init__ does
\*                 not look at it), the vendor refuses the first call;
\*   "upstream"    the vendor cannot be reached or refuses the request.
OpenFailures(prov, st) ==
    IF prov = "gemini" THEN {"model", "upstream"}
    ELSE IF st.OPENAI_API_KEY = "" THEN {"credential"}
    ELSE {"upstream"}

\* Opening can succeed.
CanOpen(prov, st) == prov = "gemini" \/ st.OPENAI_API_KEY # ""

\* Failures to open that are errors of the configuration.
ConfigCauses == {"model", "credential"}

OpenFailureMsg(cause) ==
    CASE cause = "model" -> ModelMsg
      [] cause = "credential" -> CredentialMsg
      [] OTHER -> OpenMsg
PullMsg == "upstream failed"
ReleaseMsg == "close failed"

SIdle(prov) ==
    /\ provider = prov
    /\ connected = TRUE
    /\ gpc = "idle"
    /\ gend = "none"
    /\ pending = NoFrame
    /\ frames = <<>>
    /\ wire = ""
    /\ events = <<>>
    /\ pulls = 0
    /\ vcount = 0
    /\ aqueue = <<>>
    /\ aended = FALSE
    /\ fullText = ""
    /\ handle = [acquired |-> FALSE, released |-> 0, conn |-> "none"]
    /\ errs = {}
    /\ errAt = -1

\* gen(), lines 58-62: except Exception as e: yield sse("error", ...); raise
OnExceptionSilent(msg) == [gpc |-> "finished", gend |-> "raised", pending |-> NoFrame]
OnException(msg) ==
    [gpc |-> "yielded", gend |-> "none",
     pending |-> Frame("error", "Stream error: " \o msg)]

\* The loop body without its checks that the payload is non-empty.
OnEventUnfiltered(event) ==
    IF event.kind = "delta"
    THEN [next |-> "yield", frame |-> Frame("delta", event.text)]
    ELSE [next |-> "yield", frame |-> Frame("done", event.response_id)]

\* gen(), lines 47-55: the body of "for event in stream" for one event.
\* next is "yield" (a frame is yielded) or "pull" (the loop pulls again).
OnEvent(event) ==
    IF event.kind = "delta" /\ Truthy(event.text)
    THEN [next |-> "yield", frame |-> Frame("delta", event.text)]
    ELSE IF event.kind = "done" /\ Truthy(event.response_id)
    THEN [next |-> "yield", frame |-> Frame("done", event.response_id)]
    ELSE [next |-> "pull", frame |-> NoFrame]

\* The loop of gen() receives an event from the handle.
Deliver(event) ==
    LET r == OnEvent(event) IN
    /\ events' = Append(events, event)
    /\ IF r.next = "yield"
       THEN /\ gpc' = "yielded"
            /\ pending' = r.frame
            /\ pulls' = pulls
       ELSE /\ gpc' = "pulling"
            /\ pending' = NoFrame
            /\ pulls' = pulls + 1

\* The with-block is left: __exit__ runs; exc is "" when no exception is in
\* flight, else its message.  An exception that is in flight, or one raised
\* by __exit__, reaches the except clause.
LeaveWith(rel, exc) ==
    LET msg == IF Raises(rel) THEN ReleaseMsg ELSE exc
        x   == OnException(msg)
    IN
    /\ handle' = HandleExit(provider, handle, rel)
    /\ errs' = errs \cup (IF Raises(rel) THEN {"release"} ELSE {})
                    \cup (IF exc # "" THEN {"pull"} ELSE {})
    /\ IF msg = ""
       THEN /\ gpc' = "finished"
            /\ gend' = "returned"
            /\ pending' = NoFrame
       ELSE /\ gpc' = x.gpc
            /\ gend' = x.gend
            /\ pending' = x.pending

\* gen(), lines 41-46: provider.stream_chat(...) and __enter__ succeed, the
\* loop starts its first pull.
StartOk ==
    /\ rpc = "streaming"
    /\ gpc = "idle"
    /\ connected
    /\ CanOpen(provider, settings)
    /\ handle' = [acquired |-> TRUE, released |-> 0, conn |-> "open"]
    /\ gpc' = "pulling"
    /\ pulls' = 1
    /\ UNCHANGED <<provider, connected, gend, pending, frames, wire, events,
                   vcount, aqueue, aended, fullText, errs, errAt>>

\* gen(), lines 41-45 and 58-61: stream_chat(...) or __enter__ raises.
StartFail(cause) ==
    LET x == OnException(OpenFailureMsg(cause)) IN
    /\ rpc = "streaming"
    /\ gpc = "idle"
    /\ connected
    /\ cause \in OpenFailures(provider, settings)
    /\ errs' = errs \cup {"open"}
                    \cup (IF cause \in ConfigCauses THEN {"config"} ELSE {})
    /\ errAt' = Len(frames)
    /\ gpc' = x.gpc
    /\ gend' = x.gend
    /\ pending' = x.pending
    /\ UNCHANGED <<provider, connected, frames, wire, events, pulls, vcount,
                   aqueue, aended, fullText, handle>>

\* The adapter reads one vendor event and yields what it maps to, if anything.
VendorEvent(ev) ==
    LET a == Adapt(provider, ev, fullText) IN
    /\ gpc = "pulling"
    /\ aqueue = <<>>
    /\ ~aended
    /\ vcount < MaxEvents
    /\ vcount' = vcount + 1
    /\ fullText' = IF provider = "gemini" THEN GeminiText(ev, fullText) ELSE fullText
    /\ aended' = a.stop
    /\ IF a.out = <<>>
       THEN /\ aqueue' = <<>>
            /\ UNCHANGED <<gpc, pending, events, pulls>>
       ELSE /\ aqueue' = Tail(a.out)
            /\ Deliver(Head(a.out))
    /\ UNCHANGED <<provider, connected, gend, frames, wire, handle, errs, errAt>>

\* The adapter yields the next event it derived from the vendor event it
\* already read (Gemini: the done event after the delta of the last chunk).
AdapterYield ==
    /\ gpc = "pulling"
    /\ aqueue # <<>>
    /\ aqueue' = Tail(aqueue)
    /\ Deliver(Head(aqueue))
    /\ UNCHANGED <<provider, connected, gend, frames, wire, vcount, aended,
                   fullText, handle, errs, errAt>>

\* gen(), lines 56-57: what is raised when the loop ended after n events
\* without a done frame: nothing (n = 0 only logs a warning).
EndOfStreamStrict(n) == IF n = 0 THEN "No events received from stream" ELSE ""
EndOfStream(n) == ""

\* The handle is exhausted: the loop ends and the with-block is left.
VendorEnd(rel) ==
    /\ gpc = "pulling"
    /\ aqueue = <<>>
    /\ LeaveWith(rel, EndOfStream(Len(events)))
    /\ aended' = TRUE
    /\ UNCHANGED <<provider, connected, frames, wire, events, pulls, vcount,
                   aqueue, fullText, errAt>>

\* Pulling from the handle raises.
VendorError(rel) ==
    /\ gpc = "pulling"
    /\ aqueue = <<>>
    /\ ~aended
    /\ LeaveWith(rel, PullMsg)
    /\ errAt' = Len(frames)
    /\ aended' = TRUE
    /\ UNCHANGED <<provider, connected, frames, wire, events, pulls, vcount,
                   aqueue, fullText>>

\* StreamingResponse writes the frame gen() yielded.
Send ==
    /\ gpc = "yielded"
    /\ connected
    /\ frames' = Append(frames, pending)
    /\ wire' = wire \o pending.bytes
    /\ gpc' = "sent"
    /\ UNCHANGED <<provider, connected, gend, pending, events, pulls, vcount,
                   aqueue, aended, fullText, handle, errs, errAt>>

\* StreamingResponse asks gen() for the next frame: after a delta the loop
\* pulls again; after done it breaks and leaves the with-block; after the
\* error frame the exception is re-raised.
Resume(rel) ==
    /\ gpc = "sent"
    /\ connected
    /\ CASE pending.event = "delta" ->
              /\ gpc' = "pulling"
              /\ pulls' = pulls + 1
              /\ pending' = NoFrame
              /\ UNCHANGED <<gend, handle, errs>>
         [] pending.event = "done" ->
              /\ LeaveWith(rel, "")
              /\ UNCHANGED pulls
         [] pending.event = "error" ->
              /\ rel = "ok"
              /\ gpc' = "finished"
              /\ gend' = "raised"
              /\ pending' = NoFrame
              /\ UNCHANGED <<pulls, handle, errs>>
    /\ UNCHANGED <<provider, connected, frames, wire, events, vcount, aqueue,
                   aended, fullText, errAt>>

\* The client goes away.
Disconnect ==
    /\ rpc = "streaming"
    /\ connected
    /\ gpc # "finished"
    /\ connected' = FALSE
    /\ UNCHANGED <<provider, gpc, gend, pending, frames, wire, events, pulls,
                   vcount, aqueue, aended, fullText, handle, errs, errAt>>

\* After a disconnect nothing asks gen() for another frame; the suspended
\* generator is closed (GeneratorExit at its yield), which leaves the
\* with-block if the yield is inside it.
Close(rel) ==
    /\ ~connected
    /\ gpc \in {"idle", "yielded", "sent"}
    /\ IF gpc # "idle" /\ pending.event \in {"delta", "done"}
       THEN /\ handle' = HandleExit(provider, handle, rel)
            /\ errs' = errs \cup (IF Raises(rel) THEN {"release"} ELSE {})
       ELSE /\ rel = "ok"
            /\ UNCHANGED <<handle, errs>>
    /\ gpc' = "finished"
    /\ gend' = "closed"
    /\ pending' = NoFrame
    /\ UNCHANGED <<provider, connected, frames, wire, events, pulls, vcount,
                   aqueue, aended, fullText, errAt>>

SNext ==
    \/ StartOk /\ UNCHANGED <<rlvars, qvars>>
    \/ \E cause \in ConfigCauses \cup {"upstream"} :
          StartFail(cause) /\ UNCHANGED <<rlvars, qvars>>
    \/ \E ev \in VendorEvents(provider) : VendorEvent(ev) /\ UNCHANGED <<rlvars, qvars>>
    \/ AdapterYield /\ UNCHANGED <<rlvars, qvars>>
    \/ \E rel \in ReleaseOutcomes(provider) : VendorEnd(rel) /\ UNCHANGED <<rlvars, qvars>>
    \/ \E rel \in ReleaseOutcomes(provider) : VendorError(rel) /\ UNCHANGED <<rlvars, qvars>>
    \/ Send /\ UNCHANGED <<rlvars, qvars>>
    \/ \E rel \in ReleaseOutcomes(provider) : Resume(rel) /\ UNCHANGED <<rlvars, qvars>>
    \/ Disconnect /\ UNCHANGED <<rlvars, qvars>>
    \/ \E rel \in ReleaseOutcomes(provider) : Close(rel) /\ UNCHANGED <<rlvars, qvars>>

\* ========================================================================
\* One request, from its arrival to its response
\* ========================================================================
\* The worker that serves the request.
ReqWorker == "w1"

\* Entries earlier requests of the client left in the store, one per second.
Backlogs == {0, Limit - 1, Limit}

\* The store after n earlier checks, at the seconds T0 - n .. T0 - 1.
RLAfter(n) ==
    /\ clock = T0
    /\ zset = [k \in Keys |->
                 {[member |-> Member(t), score |-> t] : t \in (T0 - n)..(T0 - 1)}]
    /\ expireAt = [k \in Keys |-> IF n = 0 THEN 0 ELSE T0 - 1 + WindowSec + Grace]
    /\ wpc = [w \in Workers |-> "idle"]
    /\ wkey = [w \in Workers |-> "-"]
    /\ wnow = [w \in Workers |-> 0]
    /\ wtx = [w \in Workers |-> NoTx]
    /\ last = NoCheck
    /\ burst = [k \in Keys |-> NoBurst]

\* dependencies=[Depends(rate_limit(...))]: the endpoint function runs only
\* when the dependency returned; an exception it raises is the response.
MayEnterAlways(outcome) == TRUE
MayEnter(outcome) == outcome = "admit"

\* Status of the response when the dependency raised: HTTPException(429),
\* or an unhandled exception.
DepStatus(outcome) == IF outcome = "reject" THEN 429 ELSE 500

\* The request after its admission check ended with the given outcome.
AfterAdmission(outcome) ==
    /\ verdict' = outcome
    /\ IF MayEnter(outcome)
       THEN /\ rpc' = "endpoint"
            /\ status' = status
       ELSE /\ rpc' = "responded"
            /\ status' = DepStatus(outcome)

\* The request arrives and its dependency starts the admission check.
Admission(ip) ==
    /\ rpc = "arrived"
    /\ DepBegin(ReqWorker, ip)
    /\ rpc' = "admission"
    /\ UNCHANGED <<settings, registry, resolved, calls, verdict, status>>

\* The store answers the check.
AdmissionDecide ==
    /\ rpc = "admission"
    /\ DepExecute(ReqWorker)
    /\ AfterAdmission(last'.outcome)
    /\ UNCHANGED <<settings, registry, resolved, calls>>

\* The store cannot be reached.
AdmissionStoreDown(fault) ==
    /\ rpc = "admission"
    /\ DepStoreDown(ReqWorker, fault)
    /\ AfterAdmission(last'.outcome)
    /\ UNCHANGED <<settings, registry, resolved, calls>>

\* chat_stream, lines 24-64: get_llm_provider() is called; when it returns a
\* provider the StreamingResponse over gen() is returned (status 200), when
\* it raises the request fails (status 500).
Endpoint ==
    LET r == GetLLMProvider(registry, settings) IN
    /\ rpc = "endpoint"
    /\ resolved' = r
    /\ IF r.kind = "instance"
       THEN /\ provider' = AdapterOf(r.ctor)
            /\ rpc' = "streaming"
            /\ status' = 200
       ELSE /\ provider' = provider
            /\ rpc' = "responded"
            /\ status' = 500
    /\ UNCHANGED <<settings, registry, calls, verdict>>
    /\ UNCHANGED <<connected, gpc, gend, pending, frames, wire, events, pulls,
                   vcount, aqueue, aended, fullText, handle, errs, errAt>>

RequestNext ==
    \/ \E ip \in Clients : Admission(ip) /\ UNCHANGED svars
    \/ AdmissionDecide /\ UNCHANGED svars
    \/ \E f \in Faults : AdmissionStoreDown(f) /\ UNCHANGED svars
    \/ Endpoint /\ UNCHANGED rlvars
    \/ SNext

\* ------------------------------------------------------------------------
\* Specifications
\* ------------------------------------------------------------------------
DefaultSettings == Settings(OpenAIName, "sk-test", "")

\* Configurations of the deployment: any provider name, credentials set or not.
Configs == {Settings(name, key, key) : name \in RawNames, key \in ApiKeys}

\* A request that was admitted and whose endpoint returned the
\* StreamingResponse over gen() for the given adapter.
QStreaming(prov) ==
    LET st == IF prov = "openai" THEN Settings(OpenAIName, "sk-test", "")
              ELSE Settings(GeminiName, "", "sk-test")
    IN  /\ settings \in {st, [st EXCEPT !.OPENAI_API_KEY = ""]}
        /\ registry = DefaultRegistry(TRUE)
        /\ resolved = GetLLMProvider(registry, settings)
        /\ calls = <<>>
        /\ rpc = "streaming"
        /\ verdict = "admit"
        /\ status = 200

\* The rate limiter under concurrent checks, no request streaming.
InitRL == RLInit /\ SIdle("openai") /\ QIdle(DefaultSettings, DefaultRegistry(TRUE))
SpecRL == InitRL /\ [][RLNext]_vars

\* One streaming request with either provider, the limiter at rest.
InitStream == RLInit /\ \E prov \in Providers : SIdle(prov) /\ QStreaming(prov)
SpecStream == InitStream /\ [][SNext]_vars

\* The registry under any sequence of register and resolve calls.
InitRegistry ==
    /\ RLInit
    /\ SIdle("none")
    /\ \E avail \in BOOLEAN, gkey \in ApiKeys :
          QIdle(Settings(OpenAIName, "sk-test", gkey), DefaultRegistry(avail))
SpecRegistry == InitRegistry /\ [][RegistryNext]_vars

\* One request end to end, against a store that holds the entries of the
\* client's earlier requests.
InitRequest ==
    /\ \E n \in Backlogs : RLAfter(n)
    /\ SIdle("none")
    /\ \E st \in Configs : QIdle(st, DefaultRegistry(TRUE))
SpecRequest == InitRequest /\ [][RequestNext]_vars

\* ------------------------------------------------------------------------
\* Rate limiter: properties
\* ------------------------------------------------------------------------
Min(a, b) == IF a <= b THEN a ELSE b

\* A check that reached the store has just ended.
Decided == last.outcome # "none" /\ last.fault = "none"

\* C1: sequential rate limiting.  Of the checks made for one key within one
\* second, on a key with no entry inside the window before them, the first
\* Limit are admitted and every later one is rejected; and a check made when
\* no entry of the key is left inside the window is admitted.
C1_SequentialLimit ==
    /\ \A k \in Keys :
          burst[k].fresh =>
              /\ burst[k].admits = Min(burst[k].checks, Limit)
              /\ burst[k].rejects = burst[k].checks - Min(burst[k].checks, Limit)
    /\ (Decided /\ last.before = 0) => last.outcome = "admit"

\* C2: concurrent rate limiting.  The checks of one key stamped with the
\* current second all lie inside the trailing window that ends now, so at
\* most Limit of them are admitted, whatever the interleaving of the
\* workers; the others are rejected.
C2_ConcurrentLimit ==
    \A k \in Keys :
        /\ burst[k].admits <= Limit
        /\ burst[k].checks > Limit => burst[k].rejects = burst[k].checks - Limit

\* C3: the store steps of one check run as one unit.  The count a check
\* observes is the size of the set right after its own insert and trim, which
\* is the number of entries that were inside the window when its first command
\* ran plus its own entry if new (nothing of another check came in between),
\* and it is the size of the set the check leaves behind.
C3_AtomicCheck ==
    Decided =>
        /\ last.count = last.afterTrim
        /\ last.count = last.before + last.added
        /\ last.count = Cardinality(zset[last.key])
        /\ \A w \in Workers : wtx[w] = NoTx

\* C3 witness: a check ends with a count above 1 while another worker is in
\* the middle of a check on the same key, stamped with another second.
C3_Witness ==
    /\ Decided
    /\ last.count > 1
    /\ \E w \in Workers :
          wpc[w] = "exec" /\ wkey[w] = last.key /\ wnow[w] # last.now

\* C4: fail open.  A check during which the store could not be reached
\* admits the request, however the round trip failed.
C4_FailOpen ==
    (last.outcome # "none" /\ last.fault # "none") => last.outcome = "admit"

\* ------------------------------------------------------------------------
\* Streaming route: properties
\* ------------------------------------------------------------------------
Kinds(fs) == [i \in 1..Len(fs) |-> fs[i].event]

\* fs is zero or more delta frames followed by one frame of the given kind.
DeltasThen(fs, kind) ==
    /\ Len(fs) >= 1
    /\ fs[Len(fs)].event = kind
    /\ \A i \in 1..(Len(fs) - 1) : fs[i].event = "delta"

\* gen() is over and the client was connected throughout.
Served == gpc = "finished" /\ connected

\* C5: a request whose upstream stream was consumed without any error, with
\* the client connected throughout, wrote zero or more delta frames followed
\* by exactly one done frame and nothing after it (the documented case of a
\* response with no frame at all aside).
C5_SuccessfulStreamShape ==
    (Served /\ errs = {} /\ frames # <<>>) => DeltasThen(frames, "done")

\* C6: when opening the stream or pulling from it raises after N delta frames
\* were written, the response is exactly those N delta frames followed by
\* exactly one error frame, and holds no done frame.
C6_ErrorAfterDeltas ==
    (Served /\ errAt >= 0) =>
        /\ Len(frames) = errAt + 1
        /\ DeltasThen(frames, "error")
        /\ frames[Len(frames)].data \in
               {"Stream error: " \o m :
                   m \in {OpenMsg, CredentialMsg, ModelMsg, PullMsg, ReleaseMsg}}

\* C6 witness: a pull raised after two delta frames and the response ended.
C6_Witness ==
    /\ Served
    /\ errAt = 2
    /\ "pull" \in errs
    /\ Kinds(frames) = <<"delta", "delta", "error">>

\* C7: the release routine of an acquired handle runs exactly once, however
\* streaming is left; it runs at most once at any time, never without an
\* acquired handle, and not while the loop is still pulling.
C7_ReleaseExactlyOnce ==
    /\ handle.released <= 1
    /\ ~handle.acquired => handle.released = 0
    /\ (handle.acquired /\ gpc = "finished") => handle.released = 1
    /\ gpc = "pulling" => handle.released = 0

\* C7 witness: streaming was left by a client disconnect after a frame, and
\* the handle was released.
C7_Witness ==
    /\ gpc = "finished"
    /\ gend = "closed"
    /\ handle.acquired
    /\ handle.released = 1
    /\ frames # <<>>

\* C8: once the client has disconnected, gen() starts no pull from the handle
\* (the pull in flight may complete) and no frame, in particular no error
\* frame, is written.
C8_NoPullAfterDisconnect ==
    [][~connected => (pulls' = pulls /\ frames' = frames)]_vars

\* C9: a response that has begun streaming, with the client connected
\* throughout, ends with a terminal frame (done or error).
C9_TerminalFrame ==
    (Served /\ frames # <<>>) => frames[Len(frames)].event \in {"done", "error"}

\* The frames the loop owes for the events it received: one per event with a
\* non-empty payload, up to and including the first done with a token.
RECURSIVE Relay(_)
Relay(evs) ==
    IF evs = <<>> THEN <<>>
    ELSE LET e == Head(evs) IN
         IF e.kind = "delta" /\ Truthy(e.text)
         THEN <<Frame("delta", e.text)>> \o Relay(Tail(evs))
         ELSE IF e.kind = "done" /\ Truthy(e.response_id)
         THEN <<Frame("done", e.response_id)>>
         ELSE Relay(Tail(evs))

\* One frame per event, whatever its payload.
RECURSIVE OneToOne(_)
OneToOne(evs) ==
    IF evs = <<>> THEN <<>>
    ELSE LET e == Head(evs) IN
         <<IF e.kind = "delta" THEN Frame("delta", e.text)
           ELSE Frame("done", e.response_id)>> \o OneToOne(Tail(evs))

RECURSIVE Bytes(_)
Bytes(fs) == IF fs = <<>> THEN "" ELSE Head(fs).bytes \o Bytes(Tail(fs))

\* The events received are deltas followed by one done.
DeltasDone(evs) ==
    /\ Len(evs) >= 1
    /\ evs[Len(evs)].kind = "done"
    /\ \A i \in 1..(Len(evs) - 1) : evs[i].kind = "delta"

DataFrames == SelectSeq(frames, LAMBDA f : f.event # "error")

ErrorFrameWritten == \E i \in 1..Len(frames) : frames[i].event = "error"

\* C11: a configuration error (unknown provider, missing credential, model
\* that cannot be resolved or used) is detected before the body is streamed
\* and answered with a non-stream HTTP error: a failed provider resolution
\* leaves status 500 and no frame, and no response with status 200 carries the
\* configuration error as an error frame in its body.
C11_ConfigErrorsBeforeStream ==
    /\ resolved.kind \in {"unknown", "ctor_error"} =>
          (status = 500 /\ frames = <<>> /\ ~handle.acquired)
    /\ ~(status = 200 /\ "config" \in errs /\ ErrorFrameWritten)

\* C12: the admission check comes first.  Until it has ended nothing else of
\* the request has happened; a rejected request is answered 429 and never
\* resolves a provider, opens an upstream stream or writes a frame; a provider
\* is resolved and a stream opened only for an admitted request.
NothingStarted ==
    /\ resolved = NoResolve
    /\ provider = "none"
    /\ ~handle.acquired
    /\ pulls = 0
    /\ frames = <<>>
    /\ pending = NoFrame
    /\ errs = {}

C12_AdmissionFirst ==
    /\ rpc \in {"arrived", "admission"} => (verdict = "none" /\ NothingStarted)
    /\ verdict = "reject" => (status = 429 /\ rpc = "responded" /\ NothingStarted)
    /\ verdict = "error" => (status = 500 /\ rpc = "responded" /\ NothingStarted)
    /\ ~NothingStarted => verdict = "admit"

\* C12 witness: the check counted more than Limit entries and the request was
\* answered 429.
C12_Witness ==
    /\ verdict = "reject"
    /\ last.count = Limit + 1
    /\ status = 429
    /\ rpc = "responded"

\* The provider a name stands for, trimmed and lower-cased, written out for
\* the names of the model.
Canon(name) ==
    CASE name = OpenAIName -> "openai"
      [] name = <<" ", "O", "p", "e", "n", "A", "I", " ">> -> "openai"
      [] name = GeminiName -> "gemini"
      [] name = <<"G", "E", "M", "I", "N", "I", "\n">> -> "gemini"
      [] name = <<"\t", "F", "a", "k", "e">> -> "fake"
      [] name = <<"f", "a", "k", "e">> -> "fake"
      [] name = <<"u", "n", "k", "n", "o", "w", "n", "-", "v", "e", "n", "d", "o", "r">>
            -> "unknown-vendor"
      [] OTHER -> "?"

\* The register calls made so far for the provider c, and the class the
\* latest of them registered.
RegCalls(c) ==
    {i \in 1..Len(calls) : calls[i].op = "register" /\ Canon(calls[i].name) = c}
LastRegistered(c) ==
    calls[CHOOSE i \in RegCalls(c) : \A j \in RegCalls(c) : j <= i].ctor

\* The class resolving the provider c may build: the one registered last,
\* else the one of the import-time registry ("gemini" only when its SDK
\* imported), else none.
MayBuild(c) ==
    IF RegCalls(c) # {} THEN {LastRegistered(c)}
    ELSE IF c = "openai" THEN {"OpenAIProvider"}
    ELSE IF c = "gemini" THEN {"GeminiProvider", "-"}
    ELSE {"-"}

\* C13: provider registry.  Resolving a name that is not registered fails with
\* an error that names the requested key and lists the registered keys;
\* resolving a name registered under any spelling that is equal after
\* trimming and lower-casing yields what the class registered last builds
\* (an unset name stands for "openai"); and the registry holds exactly what
\* the register calls and the import put into it, whatever was resolved.
C13_Registry ==
    /\ \A i \in 1..Len(registry) :
          /\ registry[i].ctor \in MayBuild(Canon(registry[i].name))
          /\ \A j \in 1..Len(registry) : registry[j].name = registry[i].name => j = i
    /\ \A i \in 1..Len(calls) :
          calls[i].op = "register" =>
              \E j \in 1..Len(registry) : Canon(registry[j].name) = Canon(calls[i].name)
    /\ resolved.kind # "none" =>
          LET c == IF resolved.requested = <<>> THEN "openai"
                   ELSE Canon(resolved.requested)
          IN  /\ resolved.requested = settings.LLM_PROVIDER
              /\ resolved.ctor \in MayBuild(c)
              /\ resolved.kind = "unknown" <=>
                    ~\E j \in 1..Len(registry) : Canon(registry[j].name) = c
              /\ resolved.kind = "unknown" =>
                    /\ resolved.ctor = "-"
                    /\ resolved.supported = RegistryKeys(registry)
              /\ resolved.kind = "ctor_error" =>
                    (resolved.ctor = "GeminiProvider" /\ settings.GEMINI_API_KEY = "")

\* C13 witness: a class was registered under one spelling and an instance of
\* it was resolved under another.
C13_Witness ==
    /\ resolved.kind = "instance"
    /\ resolved.ctor = "FakeProvider"
    /\ \E i \in 1..Len(calls) :
          /\ calls[i].op = "register"
          /\ calls[i].ctor = "FakeProvider"
          /\ calls[i].name # resolved.requested
          /\ Canon(calls[i].name) = Canon(resolved.requested)

\* ------------------------------------------------------------------------
\* Stream handle and adapters: properties
\* ------------------------------------------------------------------------
\* C14: whichever adapter serves the request, once the release routine of the
\* handle has run to its end the upstream network stream is closed, on every
\* way out of streaming (end of the events, break after done, exception,
\* disconnect).
C14_UpstreamClosedOnRelease ==
    (handle.released > 0 /\ "release" \notin errs) => handle.conn = "closed"

\* C15: a stream that yields no event and closes cleanly is not an error: the
\* body holds no frame at all, the handle is released and gen() returns
\* normally.
C15_EmptyStreamIsNotAnError ==
    (Served /\ handle.acquired /\ events = <<>> /\ errAt = -1
            /\ "release" \notin errs) =>
        /\ frames = <<>>
        /\ wire = ""
        /\ handle.released = 1
        /\ gend = "returned"
        /\ errs = {}

\* C15 witness: the vendor stream was opened, gave nothing and ended.
C15_Witness ==
    /\ Served
    /\ handle.acquired
    /\ vcount = 0
    /\ events = <<>>
    /\ gend = "returned"
    /\ handle.released = 1

\* C16: every done event an adapter yields carries a non-empty token: the
\* vendor's identifier or, for the adapter that has none, the token derived
\* from the accumulated text alone.
C16_DoneCarriesToken ==
    \A i \in 1..Len(events) :
        events[i].kind = "done" =>
            /\ Truthy(events[i].response_id)
            /\ provider = "gemini" => events[i].response_id = Md5Hex16(fullText)

\* C17: once the loop has received a done event, whatever its token, it
\* starts no further pull from the handle.
C17_NoPullAfterDone ==
    [][(\E i \in 1..Len(events') : events'[i].kind = "done") => pulls' = pulls]_vars

\* C18: the events an adapter yields hold at most one done event, and no
\* event follows it.
C18_DoneIsLast ==
    \A i \in 1..Len(events) : events[i].kind = "done" => i = Len(events)

\* ------------------------------------------------------------------------
\* Rate limiter: counting and window
\* ------------------------------------------------------------------------
\* C19: a check is admitted exactly when the set, after the check recorded
\* its own timestamp and removed the expired entries, holds at most Limit
\* entries.  The check's entry is in the set afterwards whether it was
\* admitted or rejected, and an entry leaves the set only by falling out of
\* the window of a later check or with the key's expiry, so rejected attempts
\* are counted by the checks after them.
C19_AdmitIffWithinLimit ==
    [][/\ Decided' =>
            /\ last'.count = Cardinality(zset'[last'.key])
            /\ last'.outcome = (IF Cardinality(zset'[last'.key]) <= Limit
                                THEN "admit" ELSE "reject")
            /\ [member |-> Member(last'.now), score |-> last'.now]
                   \in zset'[last'.key]
       /\ \A k \in Keys : \A e \in zset[k] :
            e \notin zset'[k] =>
                \/ Decided' /\ last'.key = k /\ e.score <= last'.now - WindowSec
                \/ expireAt[k] # 0 /\ clock' >= expireAt[k]
      ]_vars

\* C19 witness: a check is rejected on a key that was already over the limit
\* before it and that holds the entry of an earlier check made one second
\* before: the attempts made while over the limit are all counted.
C19_Witness ==
    /\ Decided
    /\ last.outcome = "reject"
    /\ last.count > Limit + 1
    /\ last.before > Limit
    /\ \E e \in zset[last.key] : e.score = last.now - 1

\* C20: window boundary.  A check at time now removes exactly the entries
\* older than now - WindowSec: every entry with a timestamp t >= now -
\* WindowSec that was in the set is still in it after the check (the one
\* recorded exactly WindowSec ago included), and none with t < now -
\* WindowSec is.
C20_WindowBoundary ==
    [][Decided' =>
          /\ \A e \in zset[last'.key] :
                e.score >= last'.now - WindowSec => e \in zset'[last'.key]
          /\ \A e \in zset'[last'.key] : e.score >= last'.now - WindowSec
      ]_vars

\* C21: every check that reaches the store, admitted or rejected, sets the
\* key's expiry to WindowSec + Grace seconds after the check.  Hence every
\* entry a key holds was recorded at least WindowSec + Grace seconds before
\* the key's expiry (the store never expires a key that still holds an entry
\* inside the window), a key that holds entries has an expiry that is still
\* ahead, and that expiry is no later than WindowSec + Grace seconds after
\* the latest check: a key without checks for that long is deleted.
C21_ExpiryRefreshed ==
    /\ Decided => expireAt[last.key] = last.at + WindowSec + Grace
    /\ \A k \in Keys :
          /\ zset[k] # {} => (expireAt[k] # 0 /\ clock < expireAt[k])
          /\ zset[k] = {} => expireAt[k] = 0
          /\ \A e \in zset[k] : e.score + WindowSec + Grace <= expireAt[k]
          /\ expireAt[k] # 0 =>
                \E e \in zset[k] : expireAt[k] <= e.score + MaxLag + WindowSec + Grace

\* C21 witness: a rejected check has reset the expiry of a key whose earlier
\* expiry was still pending.
C21_Witness ==
    /\ Decided
    /\ last.outcome = "reject"
    /\ expireAt[last.key] = clock + WindowSec + Grace
    /\ \E e \in zset[last.key] : e.score < clock

\* C22: a check that fails open because the store cannot be reached leaves a
\* log record of the outage before the request proceeds.
C22_OutageLogged ==
    (last.fault # "none" /\ last.outcome = "admit") => last.logs # <<>>

\* C23: a response holds at most one terminal frame (done or error), and it
\* is the last frame written, whatever the upstream events, the errors of
\* pulls and the errors of the handle's release routine are.
C23_SingleTerminalFrame ==
    \A i \in 1..Len(frames) :
        frames[i].event \in {"done", "error"} => i = Len(frames)

\* The key holds one entry per recorded second: the member is the rendering
\* of the score, and no second is recorded twice.
OnePerSecond(k) ==
    \A e1 \in zset[k] :
        /\ e1.member = Member(e1.score)
        /\ \A e2 \in zset[k] : e2.score = e1.score => e2 = e1

\* C24 as stated: after a check stamped now the set holds one entry per
\* second, all of them seconds of (now - WindowSec, now], and at most
\* WindowSec of them.
C24_SecondsOfWindow ==
    /\ \A k \in Keys : OnePerSecond(k)
    /\ Decided =>
          /\ \A e \in zset[last.key] :
                last.now - WindowSec < e.score /\ e.score <= last.now
          /\ Cardinality(zset[last.key]) <= WindowSec

\* C24 amended: recording is idempotent per integer second (a check stamped
\* with a second the set already holds adds nothing, and the second a check
\* is stamped with is in the set after it), and after a check stamped now
\* that the store ran at time at >= now the set holds one entry per second,
\* all of them seconds of (now - WindowSec, at] no later than the clock, hence
\* at most WindowSec + (at - now) of them: WindowSec when the check ran in
\* the second it was stamped with.
C24_IdempotentPerSecond ==
    /\ \A k \in Keys :
          /\ OnePerSecond(k)
          /\ \A e \in zset[k] : e.score <= clock
          /\ burst[k].checks > 0 =>
                Cardinality({e \in zset[k] : e.score = clock}) = 1
    /\ Decided =>
          /\ last.added \in {0, 1}
          /\ last.count = last.before + last.added
          /\ [member |-> Member(last.now), score |-> last.now] \in zset[last.key]
          /\ \A e \in zset[last.key] :
                last.now - WindowSec < e.score /\ e.score <= last.at
          /\ Cardinality(zset[last.key]) <= WindowSec + (last.at - last.now)
          /\ last.at = last.now =>
                /\ \A e \in zset[last.key] : e.score <= last.now
                /\ Cardinality(zset[last.key]) <= WindowSec

\* C24 witness: the second check of one second left the set as it was, with
\* the entries of other seconds and a single entry for its own.
C24_Witness ==
    /\ Decided
    /\ last.at = last.now
    /\ last.added = 0
    /\ burst[last.key].checks >= 2
    /\ last.count = last.before
    /\ last.count >= 2

====
